---------------------------- MODULE Spec2Model ----------------------------
(***************************************************************************)
(* A model of the sendblue-ts client: the key-casing transform             *)
(* (toCamelCase, keysToCamelCase) and the request pipeline (Sendblue.api). *)
(*                                                                         *)
(* A JavaScript string is a sequence of one-character strings.  A          *)
(* JavaScript value is a record [kind, val]:                               *)
(*   undefined, null : val = <<>>                                          *)
(*   boolean         : val \in BOOLEAN                                     *)
(*   number          : val \in Nat                                         *)
(*   string          : val = the sequence of its characters                *)
(*   array           : val = the sequence of its elements                  *)
(*   object          : val = the sequence of its <<key, value>> pairs, in  *)
(*                     the order Object.keys lists them                    *)
(***************************************************************************)
EXTENDS Integers, Sequences, FiniteSets, TLC

VARIABLES
    key,        \* the string handed to toCamelCase
    camel,      \* what toCamelCase returned: [set, s]
    value,      \* the value handed to keysToCamelCase
    normPc,     \* "input", "once" (normalized), "twice" (normalized again)
    norm,       \* keysToCamelCase(value)
    norm2,      \* keysToCamelCase(norm)
    publicKey,  \* the credential pair the constructor closes over
    secretKey,
    pc,         \* per call of api: "idle", "fetching", "reading", "done"
    args,       \* per call: [method, pathname, payload]
    request,    \* per call: the request handed to fetch
    response,   \* per call: [status, valid, json] as far as received
    outcome,    \* per call: what the promise settled with
    sent        \* per call: how many times fetch was called

caseVars == <<key, camel>>
normVars == <<value, normPc, norm, norm2>>
apiVars == <<publicKey, secretKey, pc, args, request, response, outcome, sent>>
vars == <<key, camel, value, normPc, norm, norm2,
          publicKey, secretKey, pc, args, request, response, outcome, sent>>

---------------------------------------------------------------------------
(* Bounds *)

MaxKeyLen == 4
MaxNodes == 3
MaxFields == 3
NumCalls == 2

---------------------------------------------------------------------------
(* Characters and strings *)

LowerSeq == <<"a","b","c","d","e","f","g","h","i","j","k","l","m",
              "n","o","p","q","r","s","t","u","v","w","x","y","z">>
UpperSeq == <<"A","B","C","D","E","F","G","H","I","J","K","L","M",
              "N","O","P","Q","R","S","T","U","V","W","X","Y","Z">>
DigitSeq == <<"0","1","2","3","4","5","6","7","8","9">>

Range(s) == {s[i] : i \in 1..Len(s)}
Lower == Range(LowerSeq)
Upper == Range(UpperSeq)
Digits == Range(DigitSeq)
Separators == {"-", "_"}

\* String.prototype.toUpperCase, one character
UpperChar(c) ==
    IF c \in Lower THEN UpperSeq[CHOOSE i \in 1..Len(LowerSeq) : LowerSeq[i] = c]
    ELSE c

\* String.prototype.toUpperCase
toUpperCase(s) == [i \in 1..Len(s) |-> UpperChar(s[i])]

\* s.replace(ch, ""): a string pattern replaces its first occurrence only
RemoveFirst(s, ch) ==
    IF \E i \in 1..Len(s) : s[i] = ch
    THEN LET i == CHOOSE j \in 1..Len(s) : s[j] = ch /\ \A h \in 1..(j - 1) : s[h] # ch
         IN  SubSeq(s, 1, i - 1) \o SubSeq(s, i + 1, Len(s))
    ELSE s

\* the class [-_] of the pattern
SepClass(c) == c \in Separators

\* the class [a-z] of the pattern under the i flag
LetterClass(c) == c \in Lower \/ c \in Upper

\* the pattern without its i flag: an uppercase letter does not match
MatchAtCaseSensitive(s, i) == i + 1 <= Len(s) /\ SepClass(s[i]) /\ s[i + 1] \in Lower

\* /([-_][a-z])/i matches at position i of s
MatchAt(s, i) == i + 1 <= Len(s) /\ SepClass(s[i]) /\ LetterClass(s[i + 1])

\* the replacer $1 => $1.toUpperCase().replace("-", "").replace("_", "")
Replacer(m) == RemoveFirst(RemoveFirst(toUpperCase(m), "-"), "_")

\* replace without the g flag: the first match only is replaced
RECURSIVE ReplaceFirstFrom(_, _)
ReplaceFirstFrom(s, i) ==
    IF i > Len(s) THEN <<>>
    ELSE IF MatchAt(s, i)
         THEN Replacer(SubSeq(s, i, i + 1)) \o SubSeq(s, i + 2, Len(s))
         ELSE <<s[i]>> \o ReplaceFirstFrom(s, i + 1)

\* replace with the g flag: scan left to right, matches do not overlap
RECURSIVE ReplaceAllFrom(_, _)
ReplaceAllFrom(s, i) ==
    IF i > Len(s) THEN <<>>
    ELSE IF MatchAt(s, i)
         THEN Replacer(SubSeq(s, i, i + 1)) \o ReplaceAllFrom(s, i + 2)
         ELSE <<s[i]>> \o ReplaceAllFrom(s, i + 1)

toCamelCase(v) == ReplaceAllFrom(v, 1)

---------------------------------------------------------------------------
(* JavaScript values *)

Undefined == [kind |-> "undefined", val |-> <<>>]
Null == [kind |-> "null", val |-> <<>>]
Bool(b) == [kind |-> "boolean", val |-> b]
Num(n) == [kind |-> "number", val |-> n]
Str(s) == [kind |-> "string", val |-> s]
Arr(es) == [kind |-> "array", val |-> es]
Obj(ps) == [kind |-> "object", val |-> ps]

\* value === Object(value): true of objects and arrays, false of primitives
IsObjectLike(v) == v.kind \in {"object", "array"}

\* Array.isArray
IsArray(v) == v.kind = "array"

\* the number a string of digits denotes
RECURSIVE DigitsValue(_)
DigitsValue(s) ==
    IF s = <<>> THEN 0
    ELSE 10 * DigitsValue(SubSeq(s, 1, Len(s) - 1))
         + (CHOOSE d \in 0..9 : DigitSeq[d + 1] = s[Len(s)])

\* an array index: a canonical numeric string; such property keys are listed
\* first, in ascending order, before the other keys in insertion order
IsArrayIndex(k) ==
    /\ Len(k) >= 1
    /\ \A i \in 1..Len(k) : k[i] \in Digits
    /\ (Len(k) > 1 => k[1] # "0")

ObjKeys(ps) == [i \in 1..Len(ps) |-> ps[i][1]]
HasKey(ps, k) == \E i \in 1..Len(ps) : ps[i][1] = k
KeyIndex(ps, k) == CHOOSE i \in 1..Len(ps) : ps[i][1] = k

\* value[key] on the pairs of an object
GetProp(ps, k) == IF HasKey(ps, k) THEN ps[KeyIndex(ps, k)][2] ELSE Undefined

\* where a new key k goes among the pairs ps
InsertAt(ps, k) ==
    IF IsArrayIndex(k)
    THEN 1 + Cardinality({i \in 1..Len(ps) :
                 IsArrayIndex(ps[i][1]) /\ DigitsValue(ps[i][1]) < DigitsValue(k)})
    ELSE Len(ps) + 1

\* an assignment that leaves an existing property as it is
SetPropKeepFirst(ps, k, v) ==
    IF HasKey(ps, k) THEN ps
    ELSE LET at == InsertAt(ps, k)
         IN  SubSeq(ps, 1, at - 1) \o << <<k, v>> >> \o SubSeq(ps, at, Len(ps))

\* result[k] = v: an existing property keeps its place and takes the new value
SetProp(ps, k, v) ==
    IF HasKey(ps, k)
    THEN [ps EXCEPT ![KeyIndex(ps, k)] = <<k, v>>]
    ELSE LET at == InsertAt(ps, k)
         IN  SubSeq(ps, 1, at - 1) \o << <<k, v>> >> \o SubSeq(ps, at, Len(ps))

\* the pairs are those of a JavaScript object: distinct keys, in key order
WellOrdered(ps) ==
    /\ \A i, j \in 1..Len(ps) : i # j => ps[i][1] # ps[j][1]
    /\ \A i, j \in 1..Len(ps) : i < j =>
          /\ IsArrayIndex(ps[j][1]) => IsArrayIndex(ps[i][1])
          /\ (IsArrayIndex(ps[i][1]) /\ IsArrayIndex(ps[j][1]))
                => DigitsValue(ps[i][1]) < DigitsValue(ps[j][1])

---------------------------------------------------------------------------
(* keysToCamelCase *)

RECURSIVE keysToCamelCase(_)

\* Object.keys(value).forEach(key => { result[toCamelCase(key)] = ... }),
\* from the i-th key on, with the result built so far
RECURSIVE ForEachKey(_, _, _)
ForEachKey(ps, i, result) ==
    IF i > Len(ps) THEN result
    ELSE ForEachKey(ps, i + 1,
            SetProp(result, toCamelCase(ps[i][1]),
                    keysToCamelCase(GetProp(ps, ps[i][1]))))

\* a map that hands the elements back in reverse order
MapElementsReversed(es) == [i \in 1..Len(es) |-> keysToCamelCase(es[Len(es) + 1 - i])]

\* value.map(index => keysToCamelCase(index))
MapElements(es) == [i \in 1..Len(es) |-> keysToCamelCase(es[i])]

keysToCamelCase(v) ==
    IF IsObjectLike(v) /\ ~IsArray(v)
    THEN Obj(ForEachKey(v.val, 1, <<>>))
    ELSE IF IsArray(v)
         THEN Arr(MapElements(v.val))
         ELSE v

---------------------------------------------------------------------------
(* JSON.stringify and the truthiness test *)

\* the decimal digits of a natural number
RECURSIVE NumText(_)
NumText(n) == IF n < 10 THEN <<DigitSeq[n + 1]>> ELSE NumText(n \div 10) \o <<DigitSeq[(n % 10) + 1]>>

\* the strings of a sequence joined by commas
RECURSIVE Join(_)
Join(ts) ==
    IF ts = <<>> THEN <<>>
    ELSE IF Len(ts) = 1 THEN ts[1]
         ELSE ts[1] \o <<",">> \o Join(Tail(ts))

\* the properties JSON.stringify writes: those whose value is not undefined
RECURSIVE Defined(_)
Defined(ps) ==
    IF ps = <<>> THEN <<>>
    ELSE IF ps[1][2].kind = "undefined" THEN Defined(Tail(ps))
         ELSE <<ps[1]>> \o Defined(Tail(ps))

\* the text JSON.stringify gives a value other than undefined (the strings of
\* the model hold no character that JSON escapes)
RECURSIVE JsonText(_)
JsonText(v) ==
    CASE v.kind = "null" -> <<"n","u","l","l">>
      [] v.kind = "undefined" -> <<"n","u","l","l">>
      [] v.kind = "boolean" -> IF v.val THEN <<"t","r","u","e">> ELSE <<"f","a","l","s","e">>
      [] v.kind = "number" -> NumText(v.val)
      [] v.kind = "string" -> <<"\"">> \o v.val \o <<"\"">>
      [] v.kind = "array" ->
            <<"[">> \o Join([i \in 1..Len(v.val) |-> JsonText(v.val[i])]) \o <<"]">>
      [] v.kind = "object" ->
            LET ps == Defined(v.val)
            IN  <<"{">>
                \o Join([i \in 1..Len(ps) |->
                           <<"\"">> \o ps[i][1] \o <<"\"", ":">> \o JsonText(ps[i][2])])
                \o <<"}">>

\* JSON.stringify(v): undefined for undefined, a string otherwise
Stringify(v) == IF v.kind = "undefined" THEN Undefined ELSE Str(JsonText(v))

\* the test of `payload ? ... : ...`
ToBoolean(v) ==
    CASE v.kind \in {"undefined", "null"} -> FALSE
      [] v.kind = "boolean" -> v.val
      [] v.kind = "number" -> v.val # 0
      [] v.kind = "string" -> v.val # <<>>
      [] OTHER -> TRUE

\* v.message for a value that is neither null nor undefined
MessageOf(v) == IF v.kind = "object" THEN GetProp(v.val, <<"m","e","s","s","a","g","e">>) ELSE Undefined

---------------------------------------------------------------------------
(* The request pipeline: Sendblue.api *)

CallIds == 1..NumCalls

sendblueBaseUrl == <<"h","t","t","p","s",":","/","/","a","p","i",".","s","e","n","d","b","l","u","e",".","c","o">>
ContentType == <<"a","p","p","l","i","c","a","t","i","o","n","/","j","s","o","n">>
ErrorName == "API_REQUEST_FAILURE"

\* response.ok
Ok(status) == status >= 200 /\ status <= 299

NoArgs == [method |-> <<>>, pathname |-> <<>>, payload |-> Undefined]
NoHeaders == [apiKeyId |-> "", apiSecretKey |-> "", contentType |-> <<>>]
NoRequest == [url |-> <<>>, method |-> <<>>, body |-> Undefined, headers |-> NoHeaders]
NoResponse == [status |-> 0, valid |-> FALSE, json |-> Undefined]
NoCause == [request |-> Undefined, response |-> [code |-> 0, message |-> Undefined]]
Pending == [kind |-> "pending", value |-> Undefined, name |-> "", message |-> <<>>, cause |-> NoCause]

\* the promise of api is fulfilled with v
Fulfilled(v) == [Pending EXCEPT !.kind = "fulfilled", !.value = v]

\* the promise of api is rejected with an error the platform raised
Rejected(kind) == [Pending EXCEPT !.kind = kind]

\* the text of the error message
ErrorMessage(pathname) == <<"E","r","r","o","r"," ","f","e","t","c","h","i","n","g"," ","d","a","t","a"," ","f","r","o","m"," ","S","e","n","d","b","l","u","e"," ","o","n"," ","r","o","u","t","e"," ","\"">> \o pathname \o <<"\"">>

\* a cause that serializes the response body in place of the payload
ErrorCauseOfResponse(payload, status, responseBody) ==
    [request |-> Stringify(responseBody),
     response |-> [code |-> status, message |-> MessageOf(responseBody)]]

\* the cause of the error
ErrorCause(payload, status, responseBody) ==
    [request |-> Stringify(payload),
     response |-> [code |-> status, message |-> MessageOf(responseBody)]]

\* new SendblueError({ name, message, cause })
SendblueError(name, message, cause) ==
    [kind |-> "SendblueError", value |-> Undefined,
     name |-> name, message |-> message, cause |-> cause]

\* the body handed to fetch
RequestBody(payload) == IF ToBoolean(payload) THEN Stringify(payload) ELSE Null

\* the arguments of the call of fetch
FetchRequest(method, pathname, payload) ==
    [url |-> sendblueBaseUrl \o pathname,
     method |-> toUpperCase(method),
     body |-> RequestBody(payload),
     headers |-> [apiKeyId |-> publicKey, apiSecretKey |-> secretKey,
                  contentType |-> ContentType]]

\* the body read without normalizing it
ResponseBodyRaw(json) == json

\* the body as api reads it: keysToCamelCase(await response.json())
ResponseBody(json) == keysToCamelCase(json)

\* what api does once the body was read: valid says whether response.json()
\* parsed it, json is the value parsed
Settle(a, status, valid, json) ==
    IF ~valid THEN Rejected("SyntaxError")
    ELSE LET responseBody == ResponseBody(json)
         IN  IF ~Ok(status)
             THEN IF responseBody.kind \in {"null", "undefined"}
                  THEN Rejected("TypeError")
                  ELSE SendblueError(ErrorName, ErrorMessage(a.pathname),
                                     ErrorCause(a.payload, status, responseBody))
             ELSE Fulfilled(responseBody)

\* api(method, pathname, payload) is called and calls fetch
Invoke(c, method, pathname, payload) ==
    /\ pc[c] = "idle"
    /\ args' = [args EXCEPT ![c] = [method |-> method, pathname |-> pathname, payload |-> payload]]
    /\ request' = [request EXCEPT ![c] = FetchRequest(method, pathname, payload)]
    /\ sent' = [sent EXCEPT ![c] = sent[c] + 1]
    /\ pc' = [pc EXCEPT ![c] = "fetching"]
    /\ UNCHANGED <<publicKey, secretKey, response, outcome>>
    /\ UNCHANGED caseVars /\ UNCHANGED normVars

\* fetch resolves with a response of the given status
Respond(c, status) ==
    /\ pc[c] = "fetching"
    /\ response' = [response EXCEPT ![c].status = status]
    /\ pc' = [pc EXCEPT ![c] = "reading"]
    /\ UNCHANGED <<publicKey, secretKey, args, request, outcome, sent>>
    /\ UNCHANGED caseVars /\ UNCHANGED normVars

\* fetch rejects (the network failed): the rejection is that of api
NetworkFailure(c) ==
    /\ pc[c] = "fetching"
    /\ outcome' = [outcome EXCEPT ![c] = Rejected("FetchError")]
    /\ pc' = [pc EXCEPT ![c] = "done"]
    /\ UNCHANGED <<publicKey, secretKey, args, request, response, sent>>
    /\ UNCHANGED caseVars /\ UNCHANGED normVars

\* parameters kept in one slot that the calls in flight share
ClosureShared(c) == args[CHOOSE d \in CallIds : pc[d] # "idle"]

\* the parameters (method, pathname, payload) the running call closed over
Closure(c) == args[c]

\* a call that sends its request again when the response is a failure
ReadBodyRetry(c, valid, json) ==
    /\ pc[c] = "reading"
    /\ response' = [response EXCEPT ![c].valid = valid, ![c].json = json]
    /\ IF (~valid \/ ~Ok(response[c].status)) /\ sent[c] < 2
       THEN /\ sent' = [sent EXCEPT ![c] = sent[c] + 1]
            /\ pc' = [pc EXCEPT ![c] = "fetching"]
            /\ UNCHANGED outcome
       ELSE /\ outcome' = [outcome EXCEPT ![c] = Settle(Closure(c), response[c].status, valid, json)]
            /\ pc' = [pc EXCEPT ![c] = "done"]
            /\ UNCHANGED sent
    /\ UNCHANGED <<publicKey, secretKey, args, request>>
    /\ UNCHANGED caseVars /\ UNCHANGED normVars

\* response.json() settles and the rest of api runs
ReadBody(c, valid, json) ==
    /\ pc[c] = "reading"
    /\ response' = [response EXCEPT ![c].valid = valid, ![c].json = json]
    /\ outcome' = [outcome EXCEPT ![c] = Settle(Closure(c), response[c].status, valid, json)]
    /\ pc' = [pc EXCEPT ![c] = "done"]
    /\ UNCHANGED <<publicKey, secretKey, args, request, sent>>
    /\ UNCHANGED caseVars /\ UNCHANGED normVars

---------------------------------------------------------------------------
(* Inputs *)

SeqsUpTo(S, n) == UNION {[1..m -> S] : m \in 0..n}

\* the keys toCamelCase is applied to
KeyChars == {"a", "b", "A", "1", "_", "-"}
Keys == SeqsUpTo(KeyChars, MaxKeyLen)

\* the keys of the objects keysToCamelCase is applied to
NormKeys == {<<"a","_","b">>, <<"a","-","b">>, <<"a","B">>, <<"_","_","a">>, <<"a","_","b","-","c">>, <<"1">>, <<"2">>}
NestedKeys == {<<"a","_","b">>, <<"a","-","b">>, <<"_","_","a">>}
Leaves == {Null, Str(<<"a","_","b">>)}
FlatLeaves == {Null, Num(1)}

\* the property of key k may come first, before the properties r of an object
CanPrepend(k, r) ==
    /\ \A i \in 1..Len(r) : r[i][1] # k
    /\ (r # <<>> /\ IsArrayIndex(r[1][1])) =>
          IsArrayIndex(k) /\ DigitsValue(k) < DigitsValue(r[1][1])

RECURSIVE ValuesOf(_)
RECURSIVE ElemSeqs(_)
RECURSIVE PairSeqs(_)

\* the sequences of values of m nodes in all
ElemSeqs(m) ==
    IF m = 0 THEN {<<>>}
    ELSE UNION {{<<x>> \o r : x \in ValuesOf(k), r \in ElemSeqs(m - k)} : k \in 1..m}

\* the property lists of objects whose values have m nodes in all
PairSeqs(m) ==
    IF m = 0 THEN {<<>>}
    ELSE UNION {{<<p[1]>> \o p[2] :
                    p \in {q \in (NestedKeys \X ValuesOf(k)) \X PairSeqs(m - k) : CanPrepend(q[1][1], q[2])}}
                : k \in 1..m}

\* the JSON values of n nodes
ValuesOf(n) ==
    IF n = 0 THEN {}
    ELSE (IF n = 1 THEN Leaves ELSE {})
         \cup {Arr(es) : es \in ElemSeqs(n - 1)}
         \cup {Obj(ps) : ps \in PairSeqs(n - 1)}

\* the JSON values of at most n nodes
ValuesUpTo(n) == UNION {ValuesOf(k) : k \in 0..n}

\* the property lists of n properties holding leaves
RECURSIVE FlatPairs(_)
FlatPairs(n) ==
    IF n = 0 THEN {<<>>}
    ELSE {<<p[1]>> \o p[2] :
             p \in {q \in (NormKeys \X FlatLeaves) \X FlatPairs(n - 1) : CanPrepend(q[1][1], q[2])}}

\* the objects of at most MaxFields properties holding leaves
FlatObjects == {Obj(ps) : ps \in UNION {FlatPairs(n) : n \in 0..MaxFields}}

NormValues == ValuesUpTo(MaxNodes) \cup FlatObjects

PublicKeys == {"pk1", "pk2"}
SecretKeys == {"sk1"}

Post == <<"p","o","s","t">>
Get == <<"g","e","t">>
Delete == <<"d","e","l","e","t","e">>
Methods == {Post, Get, Delete}
Paths == {<<"/","a","p","i","/","s","e","n","d","-","m","e","s","s","a","g","e">>, <<"/","a","c","c","o","u","n","t","s","/","c","o","n","t","a","c","t","s">>}
MessageBody == Obj(<< <<<<"m","e","s","s","a","g","e">>, Str(<<"b","a","d"," ","n","u","m","b","e","r">>)>> >>)
SendBody == Obj(<< <<<<"a","c","c","o","u","n","t","E","m","a","i","l">>, Str(<<"a","@","b",".","c","o","m">>)>>, <<<<"i","s","_","o","u","t","b","o","u","n","d">>, Bool(TRUE)>> >>)
FailBody == Obj(<< <<<<"s","t","a","t","u","s">>, Str(<<"E","R","R","O","R">>)>>, <<<<"e","r","r","o","r","_","m","e","s","s","a","g","e">>, Null>> >>)
NestedBody == Obj(<< <<<<"m","e","s","s","a","g","e">>, Obj(<< <<<<"e","r","r","o","r","_","c","o","d","e">>, Num(4)>> >>)>>, <<<<"a","_","b">>, Arr(<<Obj(<< <<<<"a","-","b">>, Null>> >>)>>)>> >>)
SendPayload == Obj(<< <<<<"n","u","m","b","e","r">>, Str(<<"1">>)>>, <<<<"s","e","n","d","_","s","t","y","l","e">>, Undefined>> >>)
Payloads == {Undefined, Null, Num(0), Num(1), Bool(FALSE), Str(<<>>), SendPayload}
Statuses == {200, 299, 300, 400}
Bodies == {MessageBody, SendBody, FailBody, NestedBody, Null, Num(0), Str(<<"m","e","s","s","a","g","e">>), Arr(<<MessageBody>>)}

\* the inputs of the calls that run together
ConcPaths == Paths
ConcPayloads == {Undefined, SendPayload}
ConcStatuses == {200, 400}
ConcBodies == {MessageBody, SendBody}

---------------------------------------------------------------------------
(* Specifications *)

CaseIdle == key = <<>> /\ camel = [set |-> FALSE, s |-> <<>>]
NormIdle == value = Undefined /\ normPc = "input" /\ norm = Undefined /\ norm2 = Undefined
ApiIdle ==
    /\ pc = [c \in CallIds |-> "idle"]
    /\ args = [c \in CallIds |-> NoArgs]
    /\ request = [c \in CallIds |-> NoRequest]
    /\ response = [c \in CallIds |-> NoResponse]
    /\ outcome = [c \in CallIds |-> Pending]
    /\ sent = [c \in CallIds |-> 0]

\* toCamelCase is applied to a key
InitCase ==
    /\ key \in Keys
    /\ camel = [set |-> FALSE, s |-> <<>>]
    /\ NormIdle
    /\ publicKey = "pk1" /\ secretKey = "sk1" /\ ApiIdle

Convert ==
    /\ ~camel.set
    /\ camel' = [set |-> TRUE, s |-> toCamelCase(key)]
    /\ UNCHANGED key /\ UNCHANGED normVars /\ UNCHANGED apiVars

NextCase == Convert
SpecCase == InitCase /\ [][NextCase]_vars

\* keysToCamelCase is applied to a value, and to its own result
InitNorm ==
    /\ value \in NormValues
    /\ normPc = "input" /\ norm = Undefined /\ norm2 = Undefined
    /\ CaseIdle
    /\ publicKey = "pk1" /\ secretKey = "sk1" /\ ApiIdle

Normalize ==
    /\ normPc = "input"
    /\ norm' = keysToCamelCase(value)
    /\ normPc' = "once"
    /\ UNCHANGED <<value, norm2>> /\ UNCHANGED caseVars /\ UNCHANGED apiVars

Renormalize ==
    /\ normPc = "once"
    /\ norm2' = keysToCamelCase(norm)
    /\ normPc' = "twice"
    /\ UNCHANGED <<value, norm>> /\ UNCHANGED caseVars /\ UNCHANGED apiVars

NextNorm == Normalize \/ Renormalize
SpecNorm == InitNorm /\ [][NextNorm]_vars

\* new Sendblue(publicKey, secretKey)
InitClient ==
    /\ publicKey \in PublicKeys
    /\ secretKey \in SecretKeys
    /\ ApiIdle
    /\ CaseIdle /\ NormIdle

\* one call of api, over all its inputs
NextApi ==
    \/ \E m \in Methods, p \in Paths, pl \in Payloads : Invoke(1, m, p, pl)
    \/ \E s \in Statuses : Respond(1, s)
    \/ NetworkFailure(1)
    \/ \E b \in Bodies : ReadBody(1, TRUE, b)
    \/ ReadBody(1, FALSE, Undefined)
SpecApi == InitClient /\ [][NextApi]_vars

\* the calls of one client, running together
Next ==
    \E c \in CallIds :
        \/ \E p \in ConcPaths, pl \in ConcPayloads : Invoke(c, Post, p, pl)
        \/ \E s \in ConcStatuses : Respond(c, s)
        \/ NetworkFailure(c)
        \/ \E b \in ConcBodies : ReadBody(c, TRUE, b)
        \/ ReadBody(c, FALSE, Undefined)
Spec == InitClient /\ [][Next]_vars

---------------------------------------------------------------------------
(* The casing of one key *)

\* the letters and separators of the reference transform
RefSeparator(c) == c = "-" \/ c = "_"
RefLetter(c) == \E i \in 1..26 : c = LowerSeq[i] \/ c = UpperSeq[i]
RefUpper(c) == IF \E i \in 1..26 : c = LowerSeq[i] THEN UpperSeq[CHOOSE i \in 1..26 : c = LowerSeq[i]] ELSE c

\* what becomes of the character at position i: a separator right before a
\* letter goes, a letter right after a separator is uppercased, the rest stays
RefAt(s, i) ==
    IF RefSeparator(s[i]) /\ i < Len(s) /\ RefLetter(s[i + 1]) THEN <<>>
    ELSE IF i > 1 /\ RefSeparator(s[i - 1]) /\ RefLetter(s[i]) THEN <<RefUpper(s[i])>>
         ELSE <<s[i]>>

RECURSIVE RefFrom(_, _)
RefFrom(s, i) == IF i > Len(s) THEN <<>> ELSE RefAt(s, i) \o RefFrom(s, i + 1)
RefCamel(s) == RefFrom(s, 1)

---------------------------------------------------------------------------
(* The normalization of a value *)

\* the key holds two separators in a row right before a letter
DoubleSeparator(k) ==
    \E i \in 1..Len(k) :
        i + 2 <= Len(k) /\ RefSeparator(k[i]) /\ RefSeparator(k[i + 1]) /\ RefLetter(k[i + 2])

\* some key of the value, at any depth, holds such a pair of separators
RECURSIVE SomeDoubleSeparator(_)
SomeDoubleSeparator(v) ==
    CASE v.kind = "array" -> \E i \in 1..Len(v.val) : SomeDoubleSeparator(v.val[i])
      [] v.kind = "object" ->
            \E i \in 1..Len(v.val) : DoubleSeparator(v.val[i][1]) \/ SomeDoubleSeparator(v.val[i][2])
      [] OTHER -> FALSE

RECURSIVE Isomorphic(_, _)
Isomorphic(a, b) ==
    /\ a.kind = b.kind
    /\ CASE a.kind = "array" ->
              /\ Len(a.val) = Len(b.val)
              /\ \A i \in 1..Len(a.val) : Isomorphic(a.val[i], b.val[i])
         [] a.kind = "object" ->
              /\ Len(a.val) = Len(b.val)
              /\ \A i \in 1..Len(a.val) : Isomorphic(a.val[i][2], b.val[i][2])
         [] OTHER -> a = b

\* no object of the value, at any depth, holds two keys of the same camelCase form
RECURSIVE CollisionFree(_)
CollisionFree(v) ==
    CASE v.kind = "array" -> \A i \in 1..Len(v.val) : CollisionFree(v.val[i])
      [] v.kind = "object" ->
            /\ \A i, j \in 1..Len(v.val) :
                  i # j => toCamelCase(v.val[i][1]) # toCamelCase(v.val[j][1])
            /\ \A i \in 1..Len(v.val) : CollisionFree(v.val[i][2])
      [] OTHER -> TRUE

\* C2 as stated: the normalized value has the shape of the input
StructurePreserved == normPc # "input" => Isomorphic(value, norm)

\* C2: the normalized value has the shape of the input, for every value no
\* object of which holds two keys of the same camelCase form
StructurePreservedCollisionFree ==
    (normPc # "input" /\ CollisionFree(value)) => Isomorphic(value, norm)

\* a nested value with rewritten keys and no collision was normalized
StructureWitness ==
    /\ normPc = "once"
    /\ CollisionFree(value)
    /\ value.kind = "object"
    /\ \E i \in 1..Len(value.val) : value.val[i][2].kind \in {"array", "object"} /\ value.val[i][2].val # <<>>
    /\ norm # value
    /\ Isomorphic(value, norm)

\* the positions of ps whose key has a camelCase form no earlier key has
Firsts(ps) == {i \in 1..Len(ps) : \A j \in 1..(i - 1) : toCamelCase(ps[j][1]) # toCamelCase(ps[i][1])}

\* the last position of ps whose key has the camelCase form of the key at i
LastOf(ps, i) ==
    CHOOSE j \in 1..Len(ps) :
        /\ toCamelCase(ps[j][1]) = toCamelCase(ps[i][1])
        /\ \A h \in (j + 1)..Len(ps) : toCamelCase(ps[h][1]) # toCamelCase(ps[i][1])

\* C10: the normalized object has one property per distinct camelCase form of
\* the input's keys, at the position of the first key of that form, with the
\* normalized value of the last key of that form
LastWriteWins ==
    (normPc # "input" /\ value.kind = "object") =>
        LET ps == value.val
            rs == norm.val
        IN  /\ norm.kind = "object"
            /\ Len(rs) = Cardinality({toCamelCase(ps[i][1]) : i \in 1..Len(ps)})
            /\ \A i \in Firsts(ps) :
                  LET at == Cardinality({j \in Firsts(ps) : j <= i})
                  IN  /\ rs[at][1] = toCamelCase(ps[i][1])
                      /\ rs[at][2] = keysToCamelCase(ps[LastOf(ps, i)][2])

\* an object whose first and third keys collide around a key that does not was
\* normalized
LastWriteWinsWitness ==
    /\ normPc = "once"
    /\ value.kind = "object"
    /\ ObjKeys(value.val) = <<<<"a","_","b">>, <<"_","_","a">>, <<"a","-","b">>>>
    /\ value.val[1][2] # value.val[3][2]
    /\ norm = Obj(<< <<<<"a","B">>, value.val[3][2]>>, <<<<"_","A">>, value.val[2][2]>> >>)

---------------------------------------------------------------------------
(* The outcome of one call *)

\* the call has received its response and settled
Settled(c) == pc[c] = "done" /\ outcome[c].kind # "FetchError"

\* the string t occurs in the string s
Contains(s, t) == \E i \in 1..(Len(s) + 1) : i + Len(t) - 1 <= Len(s) /\ SubSeq(s, i, i + Len(t) - 1) = t

\* C3 as stated: a settled call raised the structured error if and only if
\* its response status is not a success status
FailureRaisesStructuredError ==
    \A c \in CallIds :
        Settled(c) =>
            /\ ~(response[c].status \in 200..299) =>
                  outcome[c].kind = "SendblueError" /\ outcome[c].name = "API_REQUEST_FAILURE"
            /\ response[c].status \in 200..299 => outcome[c].kind # "SendblueError"

\* C4 as stated: the request carries the serialized payload whenever a payload
\* is given, and no body exactly when none is given
BodyIsSerializedPayload ==
    \A c \in CallIds :
        pc[c] # "idle" =>
            /\ args[c].payload # Undefined => request[c].body = Str(JsonText(args[c].payload))
            /\ request[c].body = Null <=> args[c].payload = Undefined

\* C5: a call answered with a failure status and a JSON object raises an error
\* whose message holds the pathname and whose cause holds the serialized
\* payload, the status and the message property of the normalized body
ErrorCarriesContext ==
    \A c \in CallIds :
        (Settled(c) /\ response[c].valid /\ ~(response[c].status \in 200..299)
            /\ response[c].json.kind = "object") =>
            LET b == response[c].json.val
                e == outcome[c]
            IN  /\ e.kind = "SendblueError"
                /\ Contains(e.message, args[c].pathname)
                /\ e.cause.request =
                      (IF args[c].payload = Undefined THEN Undefined
                       ELSE Str(JsonText(args[c].payload)))
                /\ e.cause.response.code = response[c].status
                /\ e.cause.response.message =
                      (IF \E i \in 1..Len(b) : b[i][1] = <<"m","e","s","s","a","g","e">>
                       THEN keysToCamelCase(b[CHOOSE i \in 1..Len(b) : b[i][1] = <<"m","e","s","s","a","g","e">>][2])
                       ELSE Undefined)
                /\ (response[c].status = 400 /\ response[c].json = MessageBody) =>
                      e.cause.response = [code |-> 400, message |-> Str(<<"b","a","d"," ","n","u","m","b","e","r">>)]
                /\ args[c].payload = SendPayload => e.cause.request = Str(<<"{","\"","n","u","m","b","e","r","\"",":","\"","1","\"","}">>)
                /\ args[c].payload = Num(0) => e.cause.request = Str(<<"0">>)

\* the call of the specification's example: status 400, {"message": "bad number"}
ErrorWitness ==
    \E c \in CallIds :
        /\ Settled(c)
        /\ response[c].status = 400
        /\ response[c].json = MessageBody
        /\ args[c].payload = SendPayload
        /\ outcome[c].kind = "SendblueError"
        /\ outcome[c].cause.response.message = Str(<<"b","a","d"," ","n","u","m","b","e","r">>)

NormalizedSendBody == Obj(<< <<<<"a","c","c","o","u","n","t","E","m","a","i","l">>, Str(<<"a","@","b",".","c","o","m">>)>>, <<<<"i","s","O","u","t","b","o","u","n","d">>, Bool(TRUE)>> >>)
NormalizedNestedBody == Obj(<< <<<<"m","e","s","s","a","g","e">>, Obj(<< <<<<"e","r","r","o","r","C","o","d","e">>, Num(4)>> >>)>>, <<<<"a","B">>, Arr(<<Obj(<< <<<<"a","B">>, Null>> >>)>>)>> >>)

\* C6: a call answered with a success status and a JSON body raises nothing and
\* returns the body with its keys in camelCase at every depth
SuccessReturnsNormalizedBody ==
    \A c \in CallIds :
        (Settled(c) /\ response[c].valid /\ response[c].status \in 200..299) =>
            /\ outcome[c].kind = "fulfilled"
            /\ outcome[c].value = keysToCamelCase(response[c].json)
            /\ response[c].json = SendBody => outcome[c].value = NormalizedSendBody
            /\ response[c].json = NestedBody => outcome[c].value = NormalizedNestedBody

\* the call of the specification's example: status 200 and the body of a send
SuccessWitness ==
    \E c \in CallIds :
        /\ Settled(c)
        /\ response[c].status = 200
        /\ response[c].json = SendBody
        /\ outcome[c].kind = "fulfilled"
        /\ outcome[c].value = NormalizedSendBody

---------------------------------------------------------------------------
(* Calls running together *)

\* the request a call with arguments a sends
RequestFor(a) ==
    [url |-> sendblueBaseUrl \o a.pathname,
     method |-> toUpperCase(a.method),
     body |-> IF ToBoolean(a.payload) THEN Stringify(a.payload) ELSE Null,
     headers |-> [apiKeyId |-> publicKey, apiSecretKey |-> secretKey, contentType |-> ContentType]]

\* the outcome of a call with arguments a answered with r
OutcomeFor(a, r) ==
    IF ~r.valid THEN [Pending EXCEPT !.kind = "SyntaxError"]
    ELSE IF r.status \in 200..299
         THEN [Pending EXCEPT !.kind = "fulfilled", !.value = keysToCamelCase(r.json)]
         ELSE IF r.json = Null
              THEN [Pending EXCEPT !.kind = "TypeError"]
              ELSE [kind |-> "SendblueError", value |-> Undefined, name |-> "API_REQUEST_FAILURE",
                    message |-> ErrorMessage(a.pathname),
                    cause |-> [request |-> Stringify(a.payload),
                               response |-> [code |-> r.status,
                                             message |-> MessageOf(keysToCamelCase(r.json))]]]

\* C8: whatever else is in flight, the request of a call is that of its own
\* arguments and the credential pair of the client, and its outcome is that of
\* its own arguments and its own response
CallsIndependent ==
    \A c \in CallIds :
        /\ pc[c] # "idle" => request[c] = RequestFor(args[c])
        /\ Settled(c) => outcome[c] = OutcomeFor(args[c], response[c])

\* two calls with different arguments ran together and ended differently
IndependentWitness ==
    \E c, d \in CallIds :
        /\ Settled(c) /\ Settled(d)
        /\ args[c].pathname # args[d].pathname
        /\ args[c].payload # args[d].payload
        /\ outcome[c].kind = "SendblueError"
        /\ outcome[d].kind = "fulfilled"

\* C9: a call has called fetch exactly once from its start on, whatever its
\* response: no call is ever sent again
SingleAttempt == \A c \in CallIds : sent[c] = (IF pc[c] = "idle" THEN 0 ELSE 1)

\* a call failed on its status, another on its body, each after one request
SingleAttemptWitness ==
    \E c, d \in CallIds :
        /\ pc[c] = "done" /\ outcome[c].kind = "SendblueError" /\ sent[c] = 1
        /\ pc[d] = "done" /\ outcome[d].kind = "SyntaxError" /\ sent[d] = 1

=============================================================================
